---------------------------- MODULE Spec2Model ----------------------------
(***************************************************************************)
(* A model of theanets/recurrent.py.                                       *)
(*                                                                         *)
(* Spec     : batches() and the sampler callable it returns.  A caller     *)
(*            builds one sampler from (samples, labels, steps, batch_size) *)
(*            and invokes it repeatedly; every array that a call returns   *)
(*            lives on a heap so that aliasing between calls is visible.   *)
(* SpecNet  : the task variants (Autoencoder, Predictor, Regressor,        *)
(*            Classifier): _setup_vars, Predictor.error, Classifier.error. *)
(*                                                                         *)
(* Python indices are 0-based, TLA+ sequences 1-based: a[k] of the source  *)
(* is a[k + 1] here, and the slice a[lo:hi] is Slice(a, lo, hi).           *)
(***************************************************************************)
EXTENDS Integers, Sequences, FiniteSets, TLC

VARIABLES
    samples,      \* batches(samples, ...): 2-D array, a sequence of rows
    labels,       \* batches(..., labels, ...): None or a 2-D array
    steps,        \* batches(..., steps, ...)
    batch_size,   \* batches(..., batch_size)
    sample,       \* the callable batches() returned ("none" before the call)
    heap,         \* the 3-D arrays created so far, by identity
    calls,        \* outcome of every invocation of the callable, in order
    js,           \* the offsets j drawn by the latest invocation, in order
    klass,        \* the task variant a network object was built as
    weighted,     \* self.weighted
    inputs,       \* what _setup_vars() returned (<< >> before the call)
    self_x,       \* the batch bound to self.x at the latest evaluation
    self_labels,  \* the batch bound to self.labels (Classifier)
    self_weights, \* the batch bound to self.weights (weighted models)
    output,       \* the network output handed to error()
    loss,         \* the value of the expression error() built
    edit,         \* which entry the latest batch differs in from the one before
    nevals        \* how many times the error was evaluated

samplerVars == <<samples, labels, steps, batch_size, sample, heap, calls, js>>
netVars == <<klass, weighted, inputs, self_x, self_labels, self_weights,
             output, loss, edit, nevals>>

vars == <<samplerVars, netVars>>

(***************************************************************************)
(* Bounds of the model.                                                    *)
(***************************************************************************)
MaxN == 4
MaxCalls == 2
MaxT == 2
MaxEvals == 3

Lengths == 1..MaxN
StepChoices == 1..(MaxN + 1)
BatchSizes == 0..2
Widths == 1..2
Kinds == {"ramp", "flat"}

\* labels=None: no array (every array has at least one row)
None == << >>
NoExc == "-"

Min(a, b) == IF a < b THEN a ELSE b
Max(a, b) == IF a > b THEN a ELSE b

(***************************************************************************)
(* Arrays.  A 2-D array is a non-empty sequence of rows; a 3-D array keeps *)
(* its shape beside its data, since an axis of extent 0 hides the others.  *)
(***************************************************************************)
Row(v, f) == [c \in 1..f |-> v]

\* The input arrays the model draws from: a ramp has pairwise distinct rows
\* (base+1, base+2, ...), a flat array repeats one row.  No entry is 0.
Array2(kind, n, f, base) ==
    [t \in 1..n |-> Row(IF kind = "ramp" THEN base + t ELSE base + 1, f)]

\* len(a) and a.shape[1]
len(a) == Len(a)
shape1(a) == Len(a[1])

\* a[lo:hi] for 0 <= lo: numpy clips both ends to len(a)
Slice(a, lo, hi) ==
    LET l == Min(lo, Len(a))
        h == Min(hi, Len(a))
    IN  IF h <= l THEN << >> ELSE SubSeq(a, l + 1, h)

\* np.zeros((s, b, f), dtype)
zeros(s, b, f) ==
    [shape |-> <<s, b, f>>,
     data  |-> [t \in 1..s |-> [i \in 1..b |-> [c \in 1..f |-> 0]]]]

\* whether  xs[:, i, :] = win  is accepted: i indexes axis 1, and win of
\* shape (k, g) broadcasts to (s, f) iff k in {s, 1} and g in {f, 1}
CanAssign(xs, i, win) ==
    /\ i >= 0 /\ i < xs.shape[2]
    /\ Len(win) = xs.shape[1] \/ Len(win) = 1
    /\ Len(win) >= 1 => (Len(win[1]) = xs.shape[3] \/ Len(win[1]) = 1)

\* xs[:, i, :] = win, for an accepted assignment
AssignSlot(xs, i, win) ==
    LET at(t, c) == win[IF Len(win) = 1 THEN 1 ELSE t]
                       [IF Len(win[1]) = 1 THEN 1 ELSE c]
    IN  [xs EXCEPT !.data =
            [t \in 1..xs.shape[1] |->
                [k \in 1..xs.shape[2] |->
                    IF k = i + 1
                    THEN [c \in 1..xs.shape[3] |-> at(t, c)]
                    ELSE xs.data[t][k]]]]

\* randint read as random.randint(0, high), which includes high
randintInclusive(high) == IF high < 0 THEN {} ELSE 0..high

\* randint that answers 0 for a bound that is not positive
randintClamped(high) == 0..Max(high - 1, 0)

\* np.random.randint(high): the values it can return; none when it raises
\* ValueError (high <= 0)
randint(high) == IF high <= 0 THEN {} ELSE 0..(high - 1)

\* the bound without the window length
HighNoSteps == len(samples)

\* len(samples) - steps, the bound handed to randint
High == len(samples) - steps

\* the shapes of the two batches a call allocates
XsShape == <<steps, batch_size, shape1(samples)>>
\* the label batch allocated with the width of samples
YsShapeCopied == <<steps, batch_size, shape1(samples)>>
YsShape == <<steps, batch_size, shape1(labels)>>

(***************************************************************************)
(* Outcomes of one invocation of the callable.                             *)
(***************************************************************************)
Returned(ids) == [kind |-> "return", ret |-> ids, exc |-> NoExc, at |-> NoExc]
Raised(e, where) == [kind |-> "raise", ret |-> << >>, exc |-> e, at |-> where]

\* one buffer, allocated once and handed out again by every call
ReusedId(h) == 1

\* a fresh array: np.zeros creates a new object on every call
NewId(h) == Len(h) + 1

Store(h, id, arr) ==
    [k \in 1..Max(Len(h), id) |-> IF k = id THEN arr ELSE h[k]]

(***************************************************************************)
(* batches(): no argument is examined except labels, for the choice of the *)
(* callable.                                                               *)
(***************************************************************************)
\* batches() without its labeled branch
ChosenUnlabeled(lbls) == "unlabeled_sample"

Chosen(lbls) == IF lbls = None THEN "unlabeled_sample" ELSE "labeled_sample"

batches ==
    /\ sample = "none"
    /\ sample' = Chosen(labels)
    /\ UNCHANGED <<samples, labels, steps, batch_size, heap, calls, js>>
    /\ UNCHANGED netVars

(***************************************************************************)
(* unlabeled_sample(): the loop over the slots, from slot i on, with the   *)
(* offsets d drawn for the slots.  Yields the outcome and the offsets      *)
(* drawn until then.                                                       *)
(***************************************************************************)
RECURSIVE UnlabeledLoop(_, _, _)
UnlabeledLoop(xs, i, d) ==
    IF i >= batch_size THEN [out |-> "return", xs |-> xs, at |-> NoExc, drawn |-> i]
    ELSE LET j   == d[i + 1]
             win == Slice(samples, j, j + steps)
         IN  IF ~CanAssign(xs, i, win)
             THEN [out |-> "raise", xs |-> xs, at |-> "xs", drawn |-> i + 1]
             ELSE UnlabeledLoop(AssignSlot(xs, i, win), i + 1, d)

UnlabeledCall(d) ==
    \E r \in {UnlabeledLoop(zeros(XsShape[1], XsShape[2], XsShape[3]), 0, d)} :
        /\ js' = SubSeq(d, 1, r.drawn)
        /\ IF r.out = "return"
           THEN /\ heap' = Store(heap, NewId(heap), r.xs)
                /\ calls' = Append(calls, Returned(<<NewId(heap)>>))
           ELSE /\ heap' = heap
                /\ calls' = Append(calls, Raised("ValueError", r.at))

unlabeled_sample ==
    /\ sample = "unlabeled_sample"
    /\ Len(calls) < MaxCalls
    /\ IF batch_size >= 1 /\ randint(High) = {}
       THEN /\ calls' = Append(calls, Raised("ValueError", "randint"))
            /\ js' = << >>
            /\ heap' = heap
       ELSE \E d \in [1..batch_size -> randint(High)] : UnlabeledCall(d)
    /\ UNCHANGED <<samples, labels, steps, batch_size, sample>>
    /\ UNCHANGED netVars

(***************************************************************************)
(* labeled_sample()                                                        *)
(***************************************************************************)
\* the label rows one step after the input window
LabelWindowNext(j) == Slice(labels, j + 1, j + 1 + steps)

\* the label rows copied beside the input window drawn at offset j
LabelWindow(j) == Slice(labels, j, j + steps)

RECURSIVE LabeledLoop(_, _, _, _)
LabeledLoop(xs, ys, i, d) ==
    IF i >= batch_size
    THEN [out |-> "return", xs |-> xs, ys |-> ys, at |-> NoExc, drawn |-> i]
    ELSE LET j    == d[i + 1]
             win  == Slice(samples, j, j + steps)
             lwin == LabelWindow(j)
         IN  IF ~CanAssign(xs, i, win)
             THEN [out |-> "raise", xs |-> xs, ys |-> ys, at |-> "xs", drawn |-> i + 1]
             ELSE IF ~CanAssign(ys, i, lwin)
             THEN [out |-> "raise", xs |-> xs, ys |-> ys, at |-> "ys", drawn |-> i + 1]
             ELSE LabeledLoop(AssignSlot(xs, i, win), AssignSlot(ys, i, lwin),
                              i + 1, d)

LabeledCall(d) ==
    \E r \in {LabeledLoop(zeros(XsShape[1], XsShape[2], XsShape[3]),
                          zeros(YsShape[1], YsShape[2], YsShape[3]), 0, d)} :
    \E h1 \in {Store(heap, NewId(heap), r.xs)} :
        /\ js' = SubSeq(d, 1, r.drawn)
        /\ IF r.out = "return"
           THEN /\ heap' = Store(h1, NewId(h1), r.ys)
                /\ calls' = Append(calls, Returned(<<NewId(heap), NewId(h1)>>))
           ELSE /\ heap' = heap
                /\ calls' = Append(calls, Raised("ValueError", r.at))

labeled_sample ==
    /\ sample = "labeled_sample"
    /\ Len(calls) < MaxCalls
    /\ IF labels = None
       THEN \* labels.shape[1] of None
            /\ calls' = Append(calls, Raised("AttributeError", "labels.shape"))
            /\ js' = << >>
            /\ heap' = heap
       ELSE IF batch_size >= 1 /\ randint(High) = {}
       THEN /\ calls' = Append(calls, Raised("ValueError", "randint"))
            /\ js' = << >>
            /\ heap' = heap
       ELSE \E d \in [1..batch_size -> randint(High)] : LabeledCall(d)
    /\ UNCHANGED <<samples, labels, steps, batch_size, sample>>
    /\ UNCHANGED netVars

(***************************************************************************)
(* The caller's arguments, valid or not: steps may reach or exceed         *)
(* len(samples), batch_size may be 0, labels may be shorter than samples.   *)
(***************************************************************************)
LabelChoices(n) ==
    {None} \cup
    {Array2("ramp", m, g, 10) : m \in {n - 2, n} \cap Lengths, g \in Widths}

\* no network object exists while the sampler is studied
NetIdle ==
    /\ klass = "none" /\ weighted = FALSE /\ inputs = << >>
    /\ self_x = << >> /\ self_labels = << >> /\ self_weights = << >>
    /\ output = << >> /\ loss = << >> /\ edit = << >> /\ nevals = 0

Init ==
    /\ NetIdle
    /\ \E k \in Kinds, n \in Lengths, f \in Widths :
          /\ samples = Array2(k, n, f, 0)
          /\ labels \in LabelChoices(n)
    /\ steps \in StepChoices
    /\ batch_size \in BatchSizes
    /\ sample = "none"
    /\ heap = << >>
    /\ calls = << >>
    /\ js = << >>

\* an invocation, of either callable, that draws exactly the offsets d
Call(d) ==
    /\ Len(calls) < MaxCalls
    /\ d \in [1..batch_size -> randint(High)]
    /\ \/ sample = "unlabeled_sample" /\ UnlabeledCall(d)
       \/ sample = "labeled_sample" /\ labels # None /\ LabeledCall(d)
    /\ UNCHANGED <<samples, labels, steps, batch_size, sample>>
    /\ UNCHANGED netVars

Next == batches \/ unlabeled_sample \/ labeled_sample

Spec == Init /\ [][Next]_vars

(***************************************************************************)
(* The task variants.  A network object is built as one of the four        *)
(* classes, weighted or not; _setup_vars() declares its inputs; then the   *)
(* training loop evaluates the error on one batch after another.  Each     *)
(* batch differs from the one before in a single entry, so that any batch  *)
(* is reached by a chain of evaluations.                                   *)
(***************************************************************************)
NetBatchSizes == {1, 2}
NetWidths == {1}
\* entries of x and output (Predictor), and of weights
PredValues == 0..2
WeightValues == 0..2
\* class indices of the Classifier's labels; output.shape[2] is their number
Classes == 0..1

\* probabilities are counted in units of 1e-9 and logarithms in units of
\* 1e-6: the clip bounds 1e-8 and 1 of Classifier.error
ClipLo == 10
ClipHi == 1000000000
Half == ClipHi \div 2
ProbLevels == {0, Half, 2 * ClipHi}

Fill2(T, B, v) == [t \in 1..T |-> [b \in 1..B |-> v]]
Fill3(T, B, F, v) == [t \in 1..T |-> [b \in 1..B |-> [f \in 1..F |-> v]]]

RECURSIVE SumSeq(_)
SumSeq(q) == IF q = << >> THEN 0 ELSE Head(q) + SumSeq(Tail(q))

\* a.sum() and the number of entries of a 3-D tensor (axis 0 may be empty)
Sum3(a) == SumSeq([t \in 1..Len(a) |-> SumSeq([b \in 1..Len(a[t]) |-> SumSeq(a[t][b])])])
Size3(a) == IF Len(a) = 0 THEN 0 ELSE Len(a) * Len(a[1]) * Len(a[1][1])

\* elementwise a - b and a * b of tensors of one shape
Sub3(a, b) == [t \in 1..Len(a) |-> [i \in 1..Len(a[t]) |->
                  [f \in 1..Len(a[t][i]) |-> a[t][i][f] - b[t][i][f]]]]
Mul3(a, b) == [t \in 1..Len(a) |-> [i \in 1..Len(a[t]) |->
                  [f \in 1..Len(a[t][i]) |-> a[t][i][f] * b[t][i][f]]]]

RECURSIVE Gcd(_, _)
Gcd(a, b) == IF b = 0 THEN a ELSE Gcd(b, a % b)

\* a / b of two floats that hold non-negative whole numbers: the quotient in
\* lowest terms, nan for 0/0 and inf for a/0
Div(a, b) ==
    IF b = 0 THEN [kind |-> IF a = 0 THEN "nan" ELSE "inf", num |-> 0, den |-> 0]
    ELSE [kind |-> "num", num |-> a \div Gcd(a, b), den |-> b \div Gcd(a, b)]

\* a[1:] and a[:-1]
From1(a) == SubSeq(a, 2, Len(a))
ButLast(a) == SubSeq(a, 1, Len(a) - 1)

(***************************************************************************)
(* _setup_vars() of each class: the list it returns, by input name.        *)
(***************************************************************************)
\* declares the weights whatever self.weighted is
Regressor_setup_vars_always(w) == <<"x", "targets", "weights">>

Autoencoder_setup_vars(w) == IF w THEN <<"x", "weights">> ELSE <<"x">>
Regressor_setup_vars(w) ==
    IF w THEN <<"x", "targets", "weights">> ELSE <<"x", "targets">>
Classifier_setup_vars(w) ==
    IF w THEN <<"x", "labels", "weights">> ELSE <<"x", "labels">>

\* Predictor inherits Autoencoder._setup_vars
SetupVars(k, w) ==
    CASE k = "Autoencoder" -> Autoencoder_setup_vars(w)
      [] k = "Predictor"   -> Autoencoder_setup_vars(w)
      [] k = "Regressor"   -> Regressor_setup_vars(w)
      [] k = "Classifier"  -> Classifier_setup_vars(w)

setup_vars ==
    /\ klass # "none"
    /\ inputs = << >>
    /\ inputs' = SetupVars(klass, weighted)
    /\ UNCHANGED <<klass, weighted, self_x, self_labels, self_weights,
                   output, loss, edit, nevals>>
    /\ UNCHANGED samplerVars

(***************************************************************************)
(* Predictor.error                                                         *)
(***************************************************************************)
generate_prediction(y) == y

\* the error without the shift by one step: x against the prediction of
\* the same step
PredictorErrSame(x, y) == Sub3(ButLast(x), ButLast(generate_prediction(y)))

\* err = self.x[1:] - self.generate_prediction(output)[:-1]
PredictorErr(x, y) == Sub3(From1(x), ButLast(generate_prediction(y)))

Predictor_error(x, w, wtd, y) ==
    LET err == PredictorErr(x, y)
    IN  IF wtd
        THEN Div(Sum3(Mul3(Mul3(From1(w), err), err)), Sum3(From1(w)))
        ELSE Div(Sum3(Mul3(err, err)), Size3(err))

\* the batches that differ from the current one in one entry of x, of
\* output or (weighted) of weights
PredictorEdits ==
    LET T == Len(self_x)
        B == Len(self_x[1])
        F == Len(self_x[1][1])
        at == (1..T) \X (1..B) \X (1..F)
    IN  {[x |-> [self_x EXCEPT ![p[1]][p[2]][p[3]] = v], y |-> output,
          w |-> self_weights, edit |-> <<"x", p[1] - 1, p[2] - 1, p[3] - 1>>] :
             p \in at, v \in PredValues}
        \cup
        {[x |-> self_x, y |-> [output EXCEPT ![p[1]][p[2]][p[3]] = v],
          w |-> self_weights, edit |-> <<"output", p[1] - 1, p[2] - 1, p[3] - 1>>] :
             p \in at, v \in PredValues}
        \cup
        (IF weighted
         THEN {[x |-> self_x, y |-> output,
                w |-> [self_weights EXCEPT ![p[1]][p[2]][p[3]] = v],
                edit |-> <<"weights", p[1] - 1, p[2] - 1, p[3] - 1>>] :
                   p \in at, v \in WeightValues}
         ELSE {})

PredictorFeeds ==
    IF nevals = 0
    THEN {[x |-> Fill3(T, B, F, vx), y |-> Fill3(T, B, F, vy),
           w |-> IF weighted THEN Fill3(T, B, F, vw) ELSE << >>,
           edit |-> <<"feed", 0, 0, 0>>] :
              T \in 1..MaxT, B \in NetBatchSizes, F \in NetWidths,
              vx \in {1}, vy \in {1, 2}, vw \in {0, 1}}
    ELSE {e \in PredictorEdits :
             e.x # self_x \/ e.y # output \/ e.w # self_weights}

predictor_error ==
    /\ klass = "Predictor"
    /\ inputs # << >>
    /\ nevals < MaxEvals
    /\ \E e \in PredictorFeeds :
          /\ self_x' = e.x
          /\ output' = e.y
          /\ self_weights' = e.w
          /\ edit' = e.edit
          /\ loss' = Predictor_error(e.x, e.w, weighted, e.y)
    /\ nevals' = nevals + 1
    /\ UNCHANGED <<klass, weighted, inputs, self_labels>>
    /\ UNCHANGED samplerVars

(***************************************************************************)
(* Classifier.error                                                        *)
(***************************************************************************)
\* TT.clip(p, 1e-8, 1)
clip(p, lo, hi) == IF p < lo THEN lo ELSE IF p > hi THEN hi ELSE p

\* -log(p) in units of 1e-6, for the clipped probabilities of the model
neglog(p) ==
    CASE p = ClipLo -> 18420681
      [] p = Half   -> 693147
      [] p = ClipHi -> 0

\* weights read with the axes exchanged: entry q of the result is the
\* weight of (time q % T, batch q / T)
ReshapeWeightsT(m, n) ==
    [q \in 1..n |-> m[((q - 1) % Len(m)) + 1][((q - 1) \div Len(m)) + 1]]

\* TT.reshape(m, (n, )) of a (T, B) matrix, row-major: entry q of the result
\* is m[q / B][q % B]
Reshape(m, n) ==
    [q \in 1..n |-> m[((q - 1) \div Len(m[1])) + 1][((q - 1) % Len(m[1])) + 1]]
ReshapeWeights(m, n) == Reshape(m, n)

Classifier_error(lbl, w, wtd, y) ==
    LET n       == Len(y) * Len(y[1])
        correct == Reshape(lbl, n)
        prob    == Reshape(y, n)
        nlp     == [q \in 1..n |-> neglog(clip(prob[q][correct[q] + 1], ClipLo, ClipHi))]
    IN  IF wtd
        THEN LET weights == ReshapeWeights(w, n)
             IN  Div(SumSeq([q \in 1..n |-> weights[q] * nlp[q]]), SumSeq(weights))
        ELSE Div(SumSeq(nlp), n)

ClassifierEdits ==
    LET T == Len(output)
        B == Len(output[1])
        at == (1..T) \X (1..B)
    IN  {[y |-> [output EXCEPT ![p[1]][p[2]][c + 1] = v], l |-> self_labels,
          w |-> self_weights, edit |-> <<"output", p[1] - 1, p[2] - 1, c>>] :
             p \in at, c \in Classes, v \in ProbLevels}
        \cup
        {[y |-> output, l |-> [self_labels EXCEPT ![p[1]][p[2]] = c],
          w |-> self_weights, edit |-> <<"labels", p[1] - 1, p[2] - 1, 0>>] :
             p \in at, c \in Classes}
        \cup
        (IF weighted
         THEN {[y |-> output, l |-> self_labels,
                w |-> [self_weights EXCEPT ![p[1]][p[2]] = v],
                edit |-> <<"weights", p[1] - 1, p[2] - 1, 0>>] :
                   p \in at, v \in WeightValues}
         ELSE {})

ClassifierFeeds ==
    IF nevals = 0
    THEN {[y |-> Fill3(T, B, Cardinality(Classes), Half), l |-> Fill2(T, B, 0),
           w |-> IF weighted THEN Fill2(T, B, vw) ELSE << >>,
           edit |-> <<"feed", 0, 0, 0>>] :
              T \in 1..MaxT, B \in NetBatchSizes, vw \in {0, 1}}
    ELSE {e \in ClassifierEdits :
             e.y # output \/ e.l # self_labels \/ e.w # self_weights}

classifier_error ==
    /\ klass = "Classifier"
    /\ inputs # << >>
    /\ nevals < MaxEvals
    /\ \E e \in ClassifierFeeds :
          /\ output' = e.y
          /\ self_labels' = e.l
          /\ self_weights' = e.w
          /\ edit' = e.edit
          /\ loss' = Classifier_error(e.l, e.w, weighted, e.y)
    /\ nevals' = nevals + 1
    /\ UNCHANGED <<klass, weighted, inputs, self_x>>
    /\ UNCHANGED samplerVars

\* no sampler exists while the networks are studied
SamplerIdle ==
    /\ samples = << >> /\ labels = << >> /\ steps = 0 /\ batch_size = 0
    /\ sample = "none" /\ heap = << >> /\ calls = << >> /\ js = << >>

InitNet ==
    /\ SamplerIdle
    /\ klass \in {"Autoencoder", "Predictor", "Regressor", "Classifier"}
    /\ weighted \in BOOLEAN
    /\ inputs = << >>
    /\ self_x = << >> /\ self_labels = << >> /\ self_weights = << >>
    /\ output = << >> /\ loss = << >> /\ edit = << >> /\ nevals = 0

NextNet == setup_vars \/ predictor_error \/ classifier_error

SpecNet == InitNet /\ [][NextNet]_vars

(***************************************************************************)
(* Properties of the sampler.                                              *)
(***************************************************************************)
\* the arguments the contract calls valid
Valid == steps >= 1 /\ steps < len(samples) /\ batch_size >= 1
Aligned == labels = None \/ len(labels) = len(samples)

Returns == {k \in 1..Len(calls) : calls[k].kind = "return"}
\* the input batch and the label batch a call returned
Xs(k) == heap[calls[k].ret[1]]
Ys(k) == heap[calls[k].ret[2]]

HasShape(arr, sh) ==
    /\ arr.shape = sh
    /\ Len(arr.data) = sh[1]
    /\ \A t \in 1..Len(arr.data) :
          /\ Len(arr.data[t]) = sh[2]
          /\ \A i \in 1..Len(arr.data[t]) : Len(arr.data[t][i]) = sh[3]

\* slot i (0-based) of a batch: arr[:, i, :]
Column(arr, i) == [t \in 1..arr.shape[1] |-> arr.data[t][i + 1]]

\* C1: for valid arguments every invocation returns, the input batch has
\* shape (steps, batch_size, F), and in labeled mode the label batch has
\* shape (steps, batch_size, L), L the label dimension.
C1_BatchShape ==
    Valid =>
        \A k \in 1..Len(calls) :
            /\ Aligned => calls[k].kind = "return"
            /\ calls[k].kind = "return" =>
                  /\ HasShape(Xs(k), <<steps, batch_size, shape1(samples)>>)
                  /\ labels # None =>
                        /\ Len(calls[k].ret) = 2
                        /\ HasShape(Ys(k), <<steps, batch_size, shape1(labels)>>)

C1_Witness ==
    /\ Valid /\ labels # None /\ Aligned
    /\ shape1(labels) # shape1(samples)
    /\ steps = 2 /\ batch_size = 2
    /\ Len(calls) = 2 /\ Returns = {1, 2}

\* C2: in labeled mode with len(labels) = len(samples), every slot of every
\* returned pair of batches holds samples[j:j+steps] and labels[j:j+steps]
\* for one and the same offset j (the offset drawn for that slot).
C2_Aligned ==
    (labels # None /\ len(labels) = len(samples)) =>
        /\ \A k \in Returns : \A i \in 0..(batch_size - 1) :
              \E j \in 0..len(samples) :
                  /\ Column(Xs(k), i) = Slice(samples, j, j + steps)
                  /\ Column(Ys(k), i) = Slice(labels, j, j + steps)
        /\ (Len(calls) > 0 /\ Len(calls) \in Returns) =>
              \A i \in 0..(batch_size - 1) :
                  /\ Column(Xs(Len(calls)), i) = Slice(samples, js[i + 1], js[i + 1] + steps)
                  /\ Column(Ys(Len(calls)), i) = Slice(labels, js[i + 1], js[i + 1] + steps)

C2_Witness ==
    /\ labels # None /\ len(labels) = len(samples)
    /\ len(samples) >= 2
    /\ labels[1] # labels[2] /\ samples[1] # samples[2]
    /\ steps = 2 /\ batch_size = 2
    /\ Len(calls) = 2 /\ Returns = {1, 2}
    /\ js[1] # js[2]

\* C3: for valid arguments every drawn offset j has 0 <= j <= len(samples) -
\* steps, and every slot of every returned input batch is a complete run of
\* steps consecutive rows of samples (none zero, truncated or wrapped).
C3_WindowInside ==
    Valid =>
        /\ \A i \in 1..Len(js) : js[i] >= 0 /\ js[i] <= len(samples) - steps
        /\ \A k \in Returns : \A i \in 0..(batch_size - 1) :
              \E j \in 0..(len(samples) - steps) :
                  /\ Len(Column(Xs(k), i)) = steps
                  /\ Column(Xs(k), i) = SubSeq(samples, j + 1, j + steps)
        /\ (Len(calls) > 0 /\ Len(calls) \in Returns) =>
              /\ Len(js) = batch_size
              /\ \A i \in 0..(batch_size - 1) :
                    Column(Xs(Len(calls)), i)
                        = SubSeq(samples, js[i + 1] + 1, js[i + 1] + steps)

C3_Witness ==
    /\ Valid /\ steps = 2 /\ batch_size = 2
    /\ samples[1] # samples[2]
    /\ Len(calls) = 2 /\ Returns = {1, 2}
    /\ js = <<0, 1>>

\* C4: the callable is chosen when batches() is called: every invocation
\* returns [input_batch] if labels was None and [input_batch, label_batch]
\* otherwise, so all results of one callable have the same arity.
C4_FixedArity ==
    /\ \A k \in Returns : Len(calls[k].ret) = IF labels = None THEN 1 ELSE 2
    /\ \A k, m \in Returns : Len(calls[k].ret) = Len(calls[m].ret)

C4_Witness ==
    /\ labels # None
    /\ Len(calls) = 2 /\ Returns = {1, 2}
    /\ Len(calls[1].ret) = 2 /\ Len(calls[2].ret) = 2

\* C5: a step of the sampler leaves samples, labels, steps, batch_size and
\* the chosen callable as they were, leaves every array created earlier as
\* it was, and returns only arrays that did not exist before the call.
C5_Frame ==
    [][/\ samples' = samples /\ labels' = labels
       /\ steps' = steps /\ batch_size' = batch_size
       /\ sample # "none" => sample' = sample
       /\ \A id \in DOMAIN heap : id \in DOMAIN heap' /\ heap'[id] = heap[id]
       /\ Len(calls') > Len(calls) =>
             /\ \A r \in 1..Len(calls'[Len(calls')].ret) :
                   calls'[Len(calls')].ret[r] \notin DOMAIN heap
             /\ \A k \in 1..Len(calls) : calls'[k] = calls[k]]_vars

C5_Witness ==
    /\ Len(calls) = 2 /\ Returns = {1, 2}
    /\ steps >= 1 /\ batch_size >= 1
    /\ Xs(1) # Xs(2)

\* C9: for valid arguments the offsets a slot can get are exactly
\* 0 .. len(samples)-steps-1: whatever was drawn before, every assignment of
\* these offsets to the slots (repeats included) is a possible next call,
\* the offset len(samples)-steps is never drawn, and the last row of samples
\* (when no other row equals it) is in no returned batch.
C9_OffsetRange ==
    (Valid /\ Aligned) =>
        /\ \A i \in 1..Len(js) : js[i] \in 0..(len(samples) - steps - 1)
        /\ (sample # "none" /\ Len(calls) < MaxCalls) =>
              \A d \in [1..batch_size -> 0..(len(samples) - steps - 1)] :
                  ENABLED (Call(d) /\ calls'[Len(calls')].kind = "return")
        /\ (\A t \in 1..(len(samples) - 1) : samples[t] # samples[len(samples)]) =>
              \A k \in Returns : \A t \in 1..steps : \A i \in 1..batch_size :
                  Xs(k).data[t][i] # samples[len(samples)]

C9_Witness ==
    /\ Valid /\ Aligned /\ batch_size = 2
    /\ len(samples) - steps >= 2
    /\ Len(calls) = 2 /\ Returns = {1, 2}
    /\ js = <<len(samples) - steps - 1, len(samples) - steps - 1>>
    /\ Xs(1) # Xs(2)

\* C10: batches() accepts any steps and batch_size; with steps >=
\* len(samples) and batch_size >= 1 every invocation fails at the randint
\* draw and returns nothing: no batch, filled or not, comes back.
C10_NoValidation ==
    /\ sample = "none" => ENABLED batches
    /\ (steps >= len(samples) /\ batch_size >= 1) =>
          /\ heap = << >>
          /\ \A k \in 1..Len(calls) :
                /\ calls[k].kind = "raise"
                /\ calls[k].exc = "ValueError" /\ calls[k].at = "randint"
                /\ calls[k].ret = << >>

C10_Witness ==
    /\ steps >= len(samples) /\ batch_size >= 1
    /\ sample # "none"
    /\ Len(calls) = 2
    /\ calls[2].at = "randint"

(***************************************************************************)
(* Properties of the task variants.                                        *)
(***************************************************************************)
\* output[t] = x[t+1] for every t in 0..T-2
ShiftedMatch == \A t \in 1..(Len(self_x) - 1) : output[t] = self_x[t + 1]

\* the sum over t in 0..T-2 and all (b, f) of w * (x[t+1] - output[t])^2,
\* with w the weight of (t+1, b, f), or 1 when the model is not weighted
PairedSquares ==
    SumSeq([t \in 1..(Len(self_x) - 1) |->
        SumSeq([b \in 1..Len(self_x[1]) |->
            SumSeq([f \in 1..Len(self_x[1][1]) |->
                (IF weighted THEN self_weights[t + 1][b][f] ELSE 1)
                * (self_x[t + 1][b][f] - output[t][b][f])
                * (self_x[t + 1][b][f] - output[t][b][f])])])])
PairedWeight ==
    SumSeq([t \in 1..(Len(self_x) - 1) |->
        SumSeq([b \in 1..Len(self_x[1]) |->
            SumSeq([f \in 1..Len(self_x[1][1]) |->
                IF weighted THEN self_weights[t + 1][b][f] ELSE 1])])])

IsZero(l) == l.kind = "num" /\ l.num = 0

\* C6 as stated: whenever output[t] = x[t+1] for all t in 0..T-2, the loss
\* of the Predictor is 0.
C6_ShiftedIsZero ==
    (klass = "Predictor" /\ nevals > 0 /\ ShiftedMatch) => IsZero(loss)

\* C6, amended: the loss pairs x[t+1] with the prediction at t for t in
\* 0..T-2 and is the (weights[1:]-weighted) mean of the squared differences;
\* with output[t] = x[t+1] for all t in 0..T-2 it is 0 whatever x[0] and
\* output[T-1] are, provided there is a pair at all (T >= 2) and, when
\* weighted, weights[1:] does not sum to 0; in those two cases it is nan.
C6_ShiftedLoss ==
    (klass = "Predictor" /\ nevals > 0) =>
        /\ loss = Div(PairedSquares, PairedWeight)
        /\ ShiftedMatch =>
              IF PairedWeight > 0 THEN IsZero(loss) ELSE loss.kind = "nan"
        /\ ~weighted => (PairedWeight > 0 <=> Len(self_x) >= 2)

C6_Witness ==
    /\ klass = "Predictor" /\ nevals > 0
    /\ Len(self_x) = 2
    /\ ShiftedMatch
    /\ self_x[1] # self_x[2]
    /\ output[2] # output[1]
    /\ IsZero(loss)

\* C7: in the weighted Classifier loss a position of weight 0 contributes
\* nothing: while some weight is positive, a new batch that differs from the
\* one before only in the output or the label of positions of weight 0 has
\* the same (finite) loss.
C7_ZeroWeight ==
    [][(/\ klass = "Classifier" /\ weighted
        /\ nevals > 0 /\ nevals' > nevals
        /\ self_weights' = self_weights
        /\ \E t \in 1..Len(self_weights) : \E b \in 1..Len(self_weights[t]) :
              self_weights[t][b] > 0
        /\ \A t \in 1..Len(self_weights) : \A b \in 1..Len(self_weights[t]) :
              self_weights[t][b] # 0 =>
                  /\ output'[t][b] = output[t][b]
                  /\ self_labels'[t][b] = self_labels[t][b])
       => (loss' = loss /\ loss.kind = "num")]_vars

C7_Witness ==
    /\ klass = "Classifier" /\ weighted /\ nevals > 0
    /\ edit[1] = "output"
    /\ self_weights[edit[2] + 1][edit[3] + 1] = 0
    /\ self_labels[edit[2] + 1][edit[3] + 1] = edit[4]
    /\ Len(output) = 2
    /\ loss.kind = "num" /\ loss.num > 0

\* what each class requires, by the names of its inputs
Required(k) ==
    CASE k = "Autoencoder" -> <<"x">>
      [] k = "Predictor"   -> <<"x">>
      [] k = "Regressor"   -> <<"x", "targets">>
      [] k = "Classifier"  -> <<"x", "labels">>

\* C8: _setup_vars returns the required inputs of the class in their fixed
\* order, followed by the weights iff the model is weighted: the weights
\* are absent when weighted is false and last when it is true.
C8_Inputs ==
    inputs # << >> =>
        /\ inputs = Required(klass) \o (IF weighted THEN <<"weights">> ELSE << >>)
        /\ weighted <=> (\E k \in 1..Len(inputs) : inputs[k] = "weights")
        /\ weighted => inputs[Len(inputs)] = "weights"

C8_Witness ==
    /\ klass = "Classifier" /\ weighted
    /\ inputs = <<"x", "labels", "weights">>

=============================================================================
